---- MODULE Spec2Model ----
(***************************************************************************)
(* Weather MCP demo: the weather provider (server/mcp_server.py), the      *)
(* client facade (client/mcp_client.py) and the LLM dispatcher             *)
(* (client/llm_interactive_client.py).                                     *)
(*                                                                         *)
(* Python str values are sequences of one-character strings, so that       *)
(* str.lower() and str.replace() are computed and not assumed.  A Python   *)
(* value that may or may not be a str is a record [type, s].  A text       *)
(* built by an f-string is the sequence of its pieces (Lit/Str/Num).       *)
(***************************************************************************)
EXTENDS Integers, Sequences, FiniteSets, TLC

VARIABLES
    weather_data,          \* WeatherMCPServer.weather_data (insertion-ordered dict)
    session,               \* WeatherMCPClient.session (None or the ClientSession's id)
    exit_stack,            \* WeatherMCPClient.exit_stack: the contexts entered, oldest first
    ever_connected,        \* some connect_to_server call has returned normally
    disconnected,          \* disconnect() has returned normally, and no
                           \* connect_to_server call has returned normally since
    provider,              \* LLMInteractiveClient.provider
    tools_info,            \* LLMInteractiveClient.tools_info
    resources_info,        \* LLMInteractiveClient.resources_info
    conversation_history,  \* the list run() owns and hands to process_query
    pc,                    \* where LLMInteractiveClient.run() stands
    last                   \* what the last call did: its outcome, requests, result

vars == <<weather_data, session, exit_stack, ever_connected, disconnected, provider,
          tools_info, resources_info, conversation_history, pc, last>>

\* what an LLMInteractiveClient and its run() own
dispatcher_vars == <<provider, tools_info, resources_info, conversation_history, pc>>

(***************************************************************************)
(* Bounds of the model.                                                    *)
(***************************************************************************)
MaxConnects == 2
MaxQueries == 2

-----------------------------------------------------------------------------
(***************************************************************************)
(* Python values.                                                          *)
(***************************************************************************)
None == 0

PyStr(s) == [type |-> "str", s |-> s]
PyInt == [type |-> "int", s |-> <<>>]

UpperChars == <<"A","B","C","D","E","F","G","H","I","J","K","L","M",
                "N","O","P","Q","R","S","T","U","V","W","X","Y","Z">>
LowerChars == <<"a","b","c","d","e","f","g","h","i","j","k","l","m",
                "n","o","p","q","r","s","t","u","v","w","x","y","z">>

LowerChar(c) ==
    IF \E i \in DOMAIN UpperChars : UpperChars[i] = c
    THEN LowerChars[CHOOSE i \in DOMAIN UpperChars : UpperChars[i] = c]
    ELSE c

\* str.lower()
Lower(s) == [i \in DOMAIN s |-> LowerChar(s[i])]

\* pieces of a formatted text
Lit(x) == [t |-> "lit", lit |-> x, str |-> <<>>, num |-> 0]
Str(x) == [t |-> "str", lit |-> "", str |-> x, num |-> 0]
Num(x) == [t |-> "num", lit |-> "", str |-> <<>>, num |-> x]
Dec1(x) == [t |-> "dec1", lit |-> "", str |-> <<>>, num |-> x]

\* a handler either returns a value or raises
Return(v) == [raised |-> FALSE, value |-> v]
Raise(e) == [raised |-> TRUE, value |-> e]

\* dict.get(key, "")
Get(arguments, key) ==
    IF key \in DOMAIN arguments THEN arguments[key] ELSE PyStr(<<>>)

-----------------------------------------------------------------------------
(***************************************************************************)
(* Weather provider: server/mcp_server.py                                  *)
(***************************************************************************)
new_york == <<"n","e","w","_","y","o","r","k">>
london == <<"l","o","n","d","o","n">>
tokyo == <<"t","o","k","y","o">>
paris == <<"p","a","r","i","s">>

SeededWeatherData == <<
    [key |-> new_york,
     data |-> [city |-> "New York", temperature |-> 72,
               conditions |-> "Partly Cloudy", humidity |-> 65, wind_speed |-> 12]],
    [key |-> london,
     data |-> [city |-> "London", temperature |-> 58,
               conditions |-> "Rainy", humidity |-> 80, wind_speed |-> 15]],
    [key |-> tokyo,
     data |-> [city |-> "Tokyo", temperature |-> 68,
               conditions |-> "Clear", humidity |-> 55, wind_speed |-> 8]],
    [key |-> paris,
     data |-> [city |-> "Paris", temperature |-> 62,
               conditions |-> "Cloudy", humidity |-> 70, wind_speed |-> 10]] >>

\* city in self.weather_data
InData(city) == \E i \in DOMAIN weather_data : weather_data[i].key = city

\* self.weather_data[city]
Lookup(city) ==
    weather_data[CHOOSE i \in DOMAIN weather_data : weather_data[i].key = city].data

\* self.weather_data.keys(), in insertion order
Keys == [i \in DOMAIN weather_data |-> weather_data[i].key]

\* ', '.join(self.weather_data.keys())
RECURSIVE JoinKeys(_)
JoinKeys(ks) ==
    IF ks = <<>> THEN <<>>
    ELSE IF Len(ks) = 1 THEN <<Str(ks[1])>>
    ELSE <<Str(ks[1]), Lit(", ")>> \o JoinKeys(Tail(ks))

TextContent(text) == [type |-> "text", text |-> text]

RECURSIVE SumTemps(_)
SumTemps(ds) ==
    IF ds = <<>> THEN 0 ELSE ds[1].data.temperature + SumTemps(Tail(ds))

MaxTemp == CHOOSE m \in {weather_data[i].data.temperature : i \in DOMAIN weather_data} :
               \A i \in DOMAIN weather_data : weather_data[i].data.temperature <= m
MinTemp == CHOOSE m \in {weather_data[i].data.temperature : i \in DOMAIN weather_data} :
               \A i \in DOMAIN weather_data : weather_data[i].data.temperature >= m

\* the last record at temperature t instead of the first
LastCityAt(t) ==
    SelectSeq(weather_data, LAMBDA e : e.data.temperature = t)[
        Len(SelectSeq(weather_data, LAMBDA e : e.data.temperature = t))].data.city

\* [city['city'] for city in values() if city['temperature'] == t][0]
FirstCityAt(t) ==
    SelectSeq(weather_data, LAMBDA e : e.data.temperature = t)[1].data.city

\* f"{avg_temp:.1f}": the mean in tenths, rounded half to even
AvgTenths ==
    LET n == Len(weather_data)
        q == (10 * SumTemps(weather_data)) \div n
        r == (10 * SumTemps(weather_data)) % n
    IN  IF 2 * r < n THEN q
        ELSE IF 2 * r > n THEN q + 1
        ELSE IF q % 2 = 0 THEN q ELSE q + 1

Abs(x) == IF x < 0 THEN -x ELSE x

UnknownCityText(city) ==
    <<Lit("Error: Unknown city '"), Str(city), Lit("'. Available cities: ")>>
        \o JoinKeys(Keys)

CitiesNotFoundText ==
    <<Lit("Error: One or both cities not found. Available cities: ")>> \o JoinKeys(Keys)

CurrentWeatherText(weather) ==
    <<Lit("Current weather in "), Lit(weather.city), Lit(":\nTemperature: "),
      Num(weather.temperature), Lit("°F\nConditions: "), Lit(weather.conditions),
      Lit("\nHumidity: "), Num(weather.humidity), Lit("%\nWind Speed: "),
      Num(weather.wind_speed), Lit(" mph")>>

\* the comparison with the difference taken the other way round
CompareTextReversed(w1, w2) ==
    LET temp_diff == w2.temperature - w1.temperature
    IN  <<Lit("Weather Comparison:\n\n"),
          Lit(w1.city), Lit(": "), Num(w1.temperature), Lit("°F, "), Lit(w1.conditions),
          Lit("\n"),
          Lit(w2.city), Lit(": "), Num(w2.temperature), Lit("°F, "), Lit(w2.conditions),
          Lit("\n\nTemperature difference: "), Num(Abs(temp_diff)), Lit("°F ("),
          Lit(w1.city), Lit(" is "),
          Lit(IF temp_diff > 0 THEN "warmer"
              ELSE IF temp_diff < 0 THEN "cooler" ELSE "the same temperature"),
          Lit(")")>>

CompareText(w1, w2) ==
    LET temp_diff == w1.temperature - w2.temperature
    IN  <<Lit("Weather Comparison:\n\n"),
          Lit(w1.city), Lit(": "), Num(w1.temperature), Lit("°F, "), Lit(w1.conditions),
          Lit("\n"),
          Lit(w2.city), Lit(": "), Num(w2.temperature), Lit("°F, "), Lit(w2.conditions),
          Lit("\n\nTemperature difference: "), Num(Abs(temp_diff)), Lit("°F ("),
          Lit(w1.city), Lit(" is "),
          Lit(IF temp_diff > 0 THEN "warmer"
              ELSE IF temp_diff < 0 THEN "cooler" ELSE "the same temperature"),
          Lit(")")>>

SummaryText ==
    <<Lit("Temperature Summary Across All Cities:\n\nAverage Temperature: "),
      Dec1(AvgTenths), Lit("°F\nHottest: "), Lit(FirstCityAt(MaxTemp)), Lit(" at "),
      Num(MaxTemp), Lit("°F\nColdest: "), Lit(FirstCityAt(MinTemp)), Lit(" at "),
      Num(MinTemp), Lit("°F\nRange: "), Num(MaxTemp - MinTemp), Lit("°F")>>

UnknownToolText(name) ==
    <<Lit("Error: Unknown tool '"), Lit(name), Lit("'")>>

\* get_current_weather that indexes the mapping without the membership test
get_current_weather_unchecked(arguments) ==
    IF Get(arguments, "city").type # "str" THEN Raise("AttributeError")
    ELSE LET city == Lower(Get(arguments, "city").s)
         IN  IF ~InData(city)
             THEN Raise("KeyError")
             ELSE Return(<<TextContent(CurrentWeatherText(Lookup(city)))>>)

\* get_current_weather that looks the argument up as it was given
get_current_weather_case_sensitive(arguments) ==
    IF Get(arguments, "city").type # "str" THEN Raise("AttributeError")
    ELSE LET city == Get(arguments, "city").s
         IN  IF ~InData(city)
             THEN Return(<<TextContent(UnknownCityText(city))>>)
             ELSE Return(<<TextContent(CurrentWeatherText(Lookup(city)))>>)

\* handle_call_tool, name == "get_current_weather"
get_current_weather(arguments) ==
    IF Get(arguments, "city").type # "str" THEN Raise("AttributeError")
    ELSE LET city == Lower(Get(arguments, "city").s)
         IN  IF ~InData(city)
             THEN Return(<<TextContent(UnknownCityText(city))>>)
             ELSE Return(<<TextContent(CurrentWeatherText(Lookup(city)))>>)

\* compare_weather whose miss test needs both cities to be unknown
compare_weather_both_missing(arguments) ==
    IF Get(arguments, "city1").type # "str" \/ Get(arguments, "city2").type # "str"
    THEN Raise("AttributeError")
    ELSE LET city1 == Lower(Get(arguments, "city1").s)
             city2 == Lower(Get(arguments, "city2").s)
         IN  IF ~InData(city1) /\ ~InData(city2)
             THEN Return(<<TextContent(CitiesNotFoundText)>>)
             ELSE IF ~InData(city1) \/ ~InData(city2) THEN Raise("KeyError")
             ELSE Return(<<TextContent(CompareText(Lookup(city1), Lookup(city2)))>>)

\* compare_weather whose miss test looks at city1 only
compare_weather_first_only(arguments) ==
    IF Get(arguments, "city1").type # "str" \/ Get(arguments, "city2").type # "str"
    THEN Raise("AttributeError")
    ELSE LET city1 == Lower(Get(arguments, "city1").s)
             city2 == Lower(Get(arguments, "city2").s)
         IN  IF ~InData(city1)
             THEN Return(<<TextContent(CitiesNotFoundText)>>)
             ELSE IF ~InData(city2) THEN Raise("KeyError")
             ELSE Return(<<TextContent(CompareText(Lookup(city1), Lookup(city2)))>>)

\* handle_call_tool, name == "compare_weather"
compare_weather(arguments) ==
    IF Get(arguments, "city1").type # "str" \/ Get(arguments, "city2").type # "str"
    THEN Raise("AttributeError")
    ELSE LET city1 == Lower(Get(arguments, "city1").s)
             city2 == Lower(Get(arguments, "city2").s)
         IN  IF ~InData(city1) \/ ~InData(city2)
             THEN Return(<<TextContent(CitiesNotFoundText)>>)
             ELSE Return(<<TextContent(CompareText(Lookup(city1), Lookup(city2)))>>)

\* handle_call_tool, name == "get_temperature_summary"
get_temperature_summary == Return(<<TextContent(SummaryText)>>)

\* an unknown tool reported as a fault, as handle_get_prompt does for a prompt
unknown_tool_raises(name) == Raise("ValueError")

\* handle_call_tool, the final else
unknown_tool(name) == Return(<<TextContent(UnknownToolText(name))>>)

\* handle_call_tool(name, arguments)
handle_call_tool(name, arguments) ==
    IF name = "get_current_weather" THEN get_current_weather(arguments)
    ELSE IF name = "compare_weather" THEN compare_weather(arguments)
    ELSE IF name = "get_temperature_summary" THEN get_temperature_summary
    ELSE unknown_tool(name)

\* handle_list_tools()
handle_list_tools ==
    Return(<< [name |-> "get_current_weather",
               description |-> "Get the current weather for a specific city",
               inputSchema |-> [properties |-> {"city"}, required |-> {"city"}]],
              [name |-> "compare_weather",
               description |-> "Compare weather conditions between two cities",
               inputSchema |-> [properties |-> {"city1", "city2"},
                                required |-> {"city1", "city2"}]],
              [name |-> "get_temperature_summary",
               description |-> "Get a summary of temperatures across all cities",
               inputSchema |-> [properties |-> {}, required |-> {}]] >>)

\* the uri scheme prefix is one symbol of a uri string
WeatherScheme == "weather://"

\* handle_list_resources that builds the uri from the display name
handle_list_resources_by_city ==
    Return([i \in DOMAIN weather_data |->
        [uri |-> <<WeatherScheme, weather_data[i].data.city>>,
         name |-> <<Lit("Weather for "), Lit(weather_data[i].data.city)>>,
         description |-> <<Lit("Current weather conditions in "),
                           Lit(weather_data[i].data.city)>>,
         mimeType |-> "application/json"]])

\* handle_list_resources()
handle_list_resources ==
    Return([i \in DOMAIN weather_data |->
        [uri |-> <<WeatherScheme>> \o weather_data[i].key,
         name |-> <<Lit("Weather for "), Lit(weather_data[i].data.city)>>,
         description |-> <<Lit("Current weather conditions in "),
                           Lit(weather_data[i].data.city)>>,
         mimeType |-> "application/json"]])

\* str(uri).replace("weather://", "")
StripScheme(uri) == SelectSeq(uri, LAMBDA c : c # WeatherScheme)

\* handle_read_resource that answers an unknown key with the timestamp alone
handle_read_resource_lenient(uri, now) ==
    LET city_key == StripScheme(uri)
    IN  IF ~InData(city_key) THEN Return([timestamp |-> now])
        ELSE LET d == Lookup(city_key)
             IN  Return([city |-> d.city, temperature |-> d.temperature,
                         conditions |-> d.conditions, humidity |-> d.humidity,
                         wind_speed |-> d.wind_speed, timestamp |-> now])

\* handle_read_resource(uri); now is datetime.now()
handle_read_resource(uri, now) ==
    LET city_key == StripScheme(uri)
    IN  IF ~InData(city_key) THEN Raise("ValueError")
        ELSE LET d == Lookup(city_key)
             IN  Return([city |-> d.city, temperature |-> d.temperature,
                         conditions |-> d.conditions, humidity |-> d.humidity,
                         wind_speed |-> d.wind_speed, timestamp |-> now])

\* the record d with one more field, "timestamp"
Stamped(d, now) ==
    [f \in DOMAIN d \cup {"timestamp"} |-> IF f = "timestamp" THEN now ELSE d[f]]

\* the mapping after a handle_read_resource that stamps the stored record
weather_data_after_read_in_place(uri, now) ==
    [i \in DOMAIN weather_data |->
        IF weather_data[i].key = StripScheme(uri)
        THEN [key |-> weather_data[i].key, data |-> Stamped(weather_data[i].data, now)]
        ELSE weather_data[i]]

\* the mapping after handle_read_resource(uri): weather_info is
\* self.weather_data[city].copy(), so the timestamp is set on the copy and
\* the mapping keeps its records
weather_data_after_read(uri, now) == weather_data

\* handle_list_prompts()
handle_list_prompts ==
    Return(<< [name |-> "weather_report",
               description |-> "Generate a weather report for a specific city",
               arguments |-> <<[name |-> "city", required |-> TRUE]>>],
              [name |-> "travel_weather_advice",
               description |-> "Get travel advice based on weather in two cities",
               arguments |-> <<[name |-> "origin", required |-> TRUE],
                               [name |-> "destination", required |-> TRUE]>>] >>)

\* handle_get_prompt(name, arguments)
handle_get_prompt(name, arguments) ==
    IF name = "weather_report" THEN
        IF Get(arguments, "city").type # "str" THEN Raise("AttributeError")
        ELSE LET city == Lower(Get(arguments, "city").s)
                 weather_text ==
                     IF ~InData(city)
                     THEN <<Lit("Error: Unknown city '"), Str(city), Lit("'")>>
                     ELSE <<Lit("The weather in "), Lit(Lookup(city).city)>>
             IN  Return([description |-> <<Lit("Weather report for "), Str(city)>>,
                         messages |-> <<[role |-> "user",
                             content |-> TextContent(
                                 <<Lit("Please provide a detailed weather report for "),
                                   Str(city),
                                   Lit(". Include temperature, conditions, humidity, and any relevant advice.")>>)]>>])
    ELSE IF name = "travel_weather_advice" THEN
        IF Get(arguments, "origin").type # "str"
              \/ Get(arguments, "destination").type # "str"
        THEN Raise("AttributeError")
        ELSE LET origin == Lower(Get(arguments, "origin").s)
                 destination == Lower(Get(arguments, "destination").s)
             IN  Return([description |-> <<Lit("Travel advice from "), Str(origin),
                                           Lit(" to "), Str(destination)>>,
                         messages |-> <<[role |-> "user",
                             content |-> TextContent(
                                 <<Lit("I'm traveling from "), Str(origin), Lit(" to "),
                                   Str(destination),
                                   Lit(". Compare the weather in both cities and give me advice on what to pack and what to expect.")>>)]>>])
    ELSE Raise("ValueError")

-----------------------------------------------------------------------------
(***************************************************************************)
(* Client facade: client/mcp_client.py                                     *)
(***************************************************************************)
\* ids of the contexts the exit stack holds, and of the session attribute
UsedIds == {exit_stack[i].id : i \in DOMAIN exit_stack} \cup {session}

\* the identity of a new object: one that no object still referenced has
FreshId(used) ==
    CHOOSE n \in 1..(Cardinality(used) + 1) :
        n \notin used /\ \A m \in 1..(n - 1) : m \in used

\* the ClientSession s is still entered in the exit stack
SessionOpen(s) ==
    \E i \in DOMAIN exit_stack : exit_stack[i].ctx = "session" /\ exit_stack[i].id = s

\* the ClientSession s is entered and its initialize() has returned
SessionInitialized(s) ==
    \E i \in DOMAIN exit_stack :
        exit_stack[i].ctx = "session" /\ exit_stack[i].id = s /\ exit_stack[i].initialized

\* the number of stdio transports (server processes) the exit stack holds
Transports == Len(SelectSeq(exit_stack, LAMBDA c : c.ctx = "stdio"))

(***************************************************************************)
(* await self.session.<request>(...): one request written to the           *)
(* transport, answered by the provider's handler.  io is what the          *)
(* transport does with it: "deliver" or "fault" (broken pipe, a provider   *)
(* that refuses an uninitialised session, ...).  A session whose contexts  *)
(* were closed cannot write at all.  A handler that raises comes back as   *)
(* an error response, which the session raises.                            *)
(***************************************************************************)
SessionRequestRetried(handled, io) ==
    IF ~SessionOpen(session) THEN [raised |-> TRUE, sent |-> 0, value |-> "ClosedResourceError"]
    ELSE IF io = "fault" THEN [raised |-> TRUE, sent |-> 2, value |-> "TransportError"]
    ELSE IF handled.raised THEN [raised |-> TRUE, sent |-> 1, value |-> handled.value]
    ELSE [raised |-> FALSE, sent |-> 1, value |-> handled.value]

\* the request as the session sends it, once
SessionRequest(handled, io) ==
    IF ~SessionOpen(session) THEN [raised |-> TRUE, sent |-> 0, value |-> "ClosedResourceError"]
    ELSE IF io = "fault" THEN [raised |-> TRUE, sent |-> 1, value |-> "TransportError"]
    ELSE IF handled.raised THEN [raised |-> TRUE, sent |-> 1, value |-> handled.value]
    ELSE [raised |-> FALSE, sent |-> 1, value |-> handled.value]

NotConnected ==
    [outcome |-> "RuntimeError: Not connected", sent |-> 0, result |-> <<>>]

\* result += item.text for each TextContent item
RECURSIVE ConcatText(_)
ConcatText(content) ==
    IF content = <<>> THEN <<>>
    ELSE (IF content[1].type = "text" THEN content[1].text ELSE <<>>)
             \o ConcatText(Tail(content))

ResourceDict(resource) ==
    [uri |-> resource.uri, name |-> resource.name,
     description |-> resource.description, mimeType |-> resource.mimeType]

ToolDict(tool) ==
    [name |-> tool.name, description |-> tool.description,
     inputSchema |-> tool.inputSchema]

PromptDict(prompt) ==
    [name |-> prompt.name, description |-> prompt.description,
     arguments |-> prompt.arguments]

PromptResult(response) ==
    [description |-> response.description,
     messages |-> [i \in DOMAIN response.messages |->
         [role |-> response.messages[i].role,
          content |-> IF response.messages[i].content.type = "text"
                      THEN [type |-> "text", text |-> response.messages[i].content.text]
                      ELSE <<>>]]]

\* json.dumps(weather_info), wrapped by the protocol in one text item
JsonText(obj) == <<TextContent(<<[t |-> "json", obj |-> obj]>>)>>

\* what a facade method makes of the response it awaited
Convert(method, v) ==
    CASE method = "list_resources" -> [i \in DOMAIN v |-> ResourceDict(v[i])]
      [] method = "list_tools" -> [i \in DOMAIN v |-> ToolDict(v[i])]
      [] method = "list_prompts" -> [i \in DOMAIN v |-> PromptDict(v[i])]
      [] method = "get_prompt" -> PromptResult(v)
      [] OTHER -> ConcatText(v)

\* a try/except that logs and returns nothing instead of re-raising
FacadeResultSwallowed(method, response) ==
    IF response.raised
    THEN [outcome |-> "ok", sent |-> response.sent, result |-> <<>>]
    ELSE [outcome |-> "ok", sent |-> response.sent,
          result |-> Convert(method, response.value)]

\* the facade's try/except around the request: log and re-raise, or convert
\* the response
FacadeResult(method, response) ==
    IF response.raised
    THEN [outcome |-> "raised", sent |-> response.sent, result |-> response.value]
    ELSE [outcome |-> "ok", sent |-> response.sent,
          result |-> Convert(method, response.value)]

\* a facade method: the not-connected test, then the request
Facade(method, handled, io) ==
    IF session = None THEN NotConnected
    ELSE FacadeResult(method, SessionRequest(handled, io))

list_resources(io) == Facade("list_resources", handle_list_resources, io)

\* the protocol's wrapping of what handle_read_resource returned
Wrapped(handled) ==
    IF handled.raised THEN handled ELSE Return(JsonText(handled.value))

read_resource(uri, now, io) ==
    Facade("read_resource", Wrapped(handle_read_resource(uri, now)), io)

list_tools(io) == Facade("list_tools", handle_list_tools, io)

call_tool(tool_name, arguments, io) ==
    Facade("call_tool", handle_call_tool(tool_name, arguments), io)

list_prompts(io) == Facade("list_prompts", handle_list_prompts, io)

get_prompt(prompt_name, arguments, io) ==
    Facade("get_prompt", handle_get_prompt(prompt_name, arguments), io)

(***************************************************************************)
(* Inputs of the facade's callers.                                         *)
(***************************************************************************)
IOs == {"deliver", "fault"}

atlantis == <<"a","t","l","a","n","t","i","s">>

CityStrings ==
    {new_york, london, tokyo, paris,
     <<"L","o","n","d","o","n">>, <<"T","O","K","Y","O">>,
     <<"N","e","w","_","Y","o","r","k">>,
     atlantis, <<"N","e","w"," ","Y","o","r","k">>, <<>>}

CityValues == {PyStr(c) : c \in CityStrings} \cup {PyInt}

PairValues ==
    {PyStr(c) : c \in {new_york, london, tokyo, paris, atlantis,
                       <<"L","o","n","d","o","n">>}}

UnknownToolNames == {"get_forecast", ""}

\* the (name, arguments) pairs a caller passes to call_tool
ToolCalls ==
    [name : {"get_current_weather"},
     arguments : {<<>>} \cup {[city |-> c] : c \in CityValues}]
    \cup [name : {"compare_weather"},
          arguments : {<<>>, [city1 |-> PyStr(london)], [city2 |-> PyStr(london)],
                       [city1 |-> PyInt, city2 |-> PyStr(london)]}
                      \cup {[city1 |-> c, city2 |-> d] : c \in PairValues, d \in PairValues}]
    \cup [name : {"get_temperature_summary"},
          arguments : {<<>>, [city |-> PyStr(atlantis)]}]
    \cup [name : UnknownToolNames,
          arguments : {<<>>, [city |-> PyStr(london)], [city |-> PyInt]}]

\* the (name, arguments) pairs a caller passes to get_prompt
PromptCalls ==
    [name : {"weather_report"},
     arguments : {<<>>} \cup {[city |-> c] : c \in {PyStr(paris), PyStr(atlantis), PyInt,
                                                   PyStr(<<"L","o","n","d","o","n">>)}}]
    \cup [name : {"travel_weather_advice"},
          arguments : {<<>>} \cup {[origin |-> c, destination |-> d] :
                                      c \in {PyStr(new_york), PyStr(atlantis)},
                                      d \in {PyStr(london), PyStr(atlantis)}}]
    \cup [name : {"weather_summary", ""},
          arguments : {<<>>, [city |-> PyStr(paris)]}]

Uris ==
    {<<WeatherScheme>> \o k : k \in {new_york, london, tokyo, paris, atlantis,
                                     <<"L","o","n","d","o","n">>, <<>>}}
        \cup {london, <<"h","t","t","p",":","/","/">> \o london}

Timestamps == {"2026-01-01T00:00:00", "2026-01-01T00:00:01"}

(***************************************************************************)
(* connect_to_server.  fails names the step that raises: entering the      *)
(* stdio transport, entering the ClientSession, session.initialize(), or   *)
(* "none".  Whatever was entered stays in the exit stack; self.session is  *)
(* assigned as soon as the ClientSession is entered.                       *)
(***************************************************************************)
ConnectSteps == {"stdio", "session", "initialize", "none"}

\* connect_to_server with a guard that refuses a client that holds a session
connect_to_server_guarded(fails) ==
    LET transport == [ctx |-> "stdio", id |-> FreshId(UsedIds), initialized |-> FALSE]
        entered == [ctx |-> "session", id |-> FreshId(UsedIds \cup {transport.id}),
                    initialized |-> fails = "none"]
    IN  IF session # None \/ fails = "stdio"
        THEN [session |-> session, exit_stack |-> exit_stack, raised |-> TRUE]
        ELSE IF fails = "session"
        THEN [session |-> session, exit_stack |-> Append(exit_stack, transport),
              raised |-> TRUE]
        ELSE [session |-> entered.id,
              exit_stack |-> exit_stack \o <<transport, entered>>,
              raised |-> fails # "none"]

connect_to_server(fails) ==
    LET transport == [ctx |-> "stdio", id |-> FreshId(UsedIds), initialized |-> FALSE]
        entered == [ctx |-> "session", id |-> FreshId(UsedIds \cup {transport.id}),
                    initialized |-> fails = "none"]
    IN  IF fails = "stdio"
        THEN [session |-> session, exit_stack |-> exit_stack, raised |-> TRUE]
        ELSE IF fails = "session"
        THEN [session |-> session, exit_stack |-> Append(exit_stack, transport),
              raised |-> TRUE]
        ELSE [session |-> entered.id,
              exit_stack |-> exit_stack \o <<transport, entered>>,
              raised |-> fails # "none"]

DoConnect(fails) ==
    LET c == connect_to_server(fails)
    IN  /\ session' = c.session
        /\ exit_stack' = c.exit_stack
        /\ ever_connected' = (ever_connected \/ ~c.raised)
        /\ disconnected' = (disconnected /\ c.raised)
        /\ last' = [op |-> "connect_to_server", fails |-> fails,
                    outcome |-> IF c.raised THEN "raised" ELSE "ok",
                    session_before |-> session,
                    connected_before |-> (session # None /\ SessionInitialized(session)),
                    transports_before |-> Transports]
        /\ UNCHANGED weather_data

Connect ==
    \E fails \in ConnectSteps :
        /\ Transports < MaxConnects
        /\ DoConnect(fails)
        /\ UNCHANGED dispatcher_vars

(***************************************************************************)
(* disconnect: exit_stack.aclose() leaves every context, also when one of  *)
(* them raises on the way out; self.session is cleared only after aclose   *)
(* has returned.                                                           *)
(***************************************************************************)
disconnect(aclose_raises) ==
    [session |-> IF aclose_raises THEN session ELSE None,
     exit_stack |-> <<>>, raised |-> aclose_raises]

DoDisconnect(aclose_raises) ==
    LET d == disconnect(aclose_raises)
    IN  /\ aclose_raises => exit_stack # <<>>
        /\ session' = d.session
        /\ exit_stack' = d.exit_stack
        /\ last' = [op |-> "disconnect",
                    outcome |-> IF d.raised THEN "raised" ELSE "ok",
                    session_before |-> session]
        /\ disconnected' = (disconnected \/ ~d.raised)
        /\ UNCHANGED <<weather_data, ever_connected>>

Disconnect ==
    \E aclose_raises \in BOOLEAN :
        DoDisconnect(aclose_raises) /\ UNCHANGED dispatcher_vars

\* a facade method that drops the session when its request raised
DoCallDropping(op, input, io, r) ==
    /\ last' = [op |-> op, input |-> input, io |-> io, outcome |-> r.outcome,
                sent |-> r.sent, result |-> r.result]
    /\ session' = IF r.outcome = "raised" THEN None ELSE session
    /\ UNCHANGED <<exit_stack, ever_connected, disconnected>>

\* a facade method returns or raises; nothing the client holds changes
DoCall(op, input, io, r) ==
    /\ last' = [op |-> op, input |-> input, io |-> io, outcome |-> r.outcome,
                sent |-> r.sent, result |-> r.result]
    /\ UNCHANGED <<session, exit_stack, ever_connected, disconnected>>

\* the handlers other than handle_read_resource only read the mapping
Called(op, input, io, r) ==
    DoCall(op, input, io, r) /\ UNCHANGED <<weather_data, dispatcher_vars>>

\* the request of this call reaches the provider's handler
Reaches(io) == session # None /\ SessionOpen(session) /\ io = "deliver"

ListResources ==
    \E io \in IOs : Called("list_resources", <<>>, io, list_resources(io))

ReadResource ==
    \E uri \in Uris, now \in Timestamps, io \in IOs :
        /\ DoCall("read_resource", [uri |-> uri], io, read_resource(uri, now, io))
        /\ weather_data' = IF Reaches(io) THEN weather_data_after_read(uri, now)
                           ELSE weather_data
        /\ UNCHANGED dispatcher_vars

ListTools ==
    \E io \in IOs : Called("list_tools", <<>>, io, list_tools(io))

CallTool ==
    \E call \in ToolCalls, io \in IOs :
        Called("call_tool", call, io, call_tool(call.name, call.arguments, io))

ListPrompts ==
    \E io \in IOs : Called("list_prompts", <<>>, io, list_prompts(io))

GetPrompt ==
    \E call \in PromptCalls, io \in IOs :
        Called("get_prompt", call, io, get_prompt(call.name, call.arguments, io))

FacadeMethods == {"list_resources", "read_resource", "list_tools", "call_tool",
                  "list_prompts", "get_prompt"}

Providers == {"openai", "anthropic", "bedrock"}

SystemMessage == [role |-> "system", content |-> "You are a helpful weather assistant."]

\* a WeatherMCPClient and a provider alone, as main() and the tests use them:
\* no LLMInteractiveClient has been constructed
Init ==
    /\ weather_data = SeededWeatherData
    /\ session = None
    /\ exit_stack = <<>>
    /\ ever_connected = FALSE
    /\ disconnected = FALSE
    /\ provider = "none"
    /\ tools_info = <<>>
    /\ resources_info = <<>>
    /\ conversation_history = <<>>
    /\ pc = "none"
    /\ last = [op |-> "init", outcome |-> "ok"]

Next ==
    \/ Connect
    \/ Disconnect
    \/ ListResources
    \/ ReadResource
    \/ ListTools
    \/ CallTool
    \/ ListPrompts
    \/ GetPrompt

Spec == Init /\ [][Next]_vars

(***************************************************************************)
(* get_temperature_summary over other mappings than the seeded one: the    *)
(* seeded keys and display names with other temperatures, ties included.   *)
(***************************************************************************)
\* the first records of the seeded mapping, with the temperatures temps
WithTemperatures(temps) ==
    [i \in DOMAIN temps |->
        [key |-> SeededWeatherData[i].key,
         data |-> [SeededWeatherData[i].data EXCEPT !.temperature = temps[i]]]]

TemperatureLists ==
    {<<72, 58, 68, 62>>, <<72, 72, 58, 58>>, <<58, 72, 72, 58>>, <<58, 58, 72, 72>>,
     <<60, 60, 60, 60>>, <<65, 65, 65, 66>>, <<65, 66, 66, 66>>, <<61, 62, 62>>,
     <<65, 66>>, <<70>>}

SummaryArguments == {<<>>, [city |-> PyStr(atlantis)], [city |-> PyInt]}

TemperatureSummary ==
    \E arguments \in SummaryArguments, io \in IOs :
        Called("call_tool",
               [name |-> "get_temperature_summary", arguments |-> arguments], io,
               call_tool("get_temperature_summary", arguments, io))

InitSummary ==
    /\ weather_data \in {WithTemperatures(temps) : temps \in TemperatureLists}
    /\ session = None
    /\ exit_stack = <<>>
    /\ ever_connected = FALSE
    /\ disconnected = FALSE
    /\ provider = "none"
    /\ tools_info = <<>>
    /\ resources_info = <<>>
    /\ conversation_history = <<>>
    /\ pc = "none"
    /\ last = [op |-> "init", outcome |-> "ok"]

NextSummary ==
    \/ Connect
    \/ Disconnect
    \/ TemperatureSummary

SpecSummary == InitSummary /\ [][NextSummary]_vars

-----------------------------------------------------------------------------
(***************************************************************************)
(* LLM dispatcher: client/llm_interactive_client.py                        *)
(*                                                                         *)
(* A backend reply is Return(response) or Raise(error).  An OpenAI         *)
(* response message is [content, tool_calls]; an Anthropic or Bedrock      *)
(* response is [stop_reason, content], content a list of text and          *)
(* tool_use blocks.  A list of messages is passed by reference: appending  *)
(* to it changes the caller's list, slicing it makes a copy.               *)
(***************************************************************************)
\* "content": None, the content of a message that carries no text
NoContent == <<>>

\* json.loads(tool_call.function.arguments); the JSON text is the value it
\* encodes, or malformed
JsonLoads(text) ==
    IF text.valid THEN Return(text.value) ELSE Raise("JSONDecodeError")

\* if message.tool_calls:
OpenAISignals(message) == message.tool_calls # <<>>

\* a signal test that takes any stop reason but the normal end of turn
ClaudeSignalsNotEndTurn(response) == response.stop_reason # "end_turn"

\* if response.stop_reason == "tool_use":
ClaudeSignals(response) == response.stop_reason = "tool_use"

\* the last of the requested tool calls instead of the first
LastToolCall(tool_calls) == tool_calls[Len(tool_calls)]

\* tool_call = message.tool_calls[0]
FirstToolCall(tool_calls) == tool_calls[1]

\* next(block for block in content if block.type == "tool_use")
FirstToolUse(content) ==
    LET uses == SelectSeq(content, LAMBDA block : block.type = "tool_use")
    IN  IF uses = <<>> THEN Raise("StopIteration") ELSE Return(uses[1])

\* content[0].text (Anthropic) and content[0]['text'] (Bedrock)
FirstBlockText(content, missing) ==
    IF content = <<>> THEN Raise("IndexError")
    ELSE IF "text" \notin DOMAIN content[1] THEN Raise(missing)
    ELSE Return(content[1].text)

\* what a _call_* coroutine leaves: it returned value or raised it, messages
\* is the caller's list afterwards, requests are the backend requests made and
\* calls the call_tool invocations made through the facade
Outcome(raised, value, messages, requests, calls, tool_ok) ==
    [raised |-> raised, value |-> value, messages |-> messages, requests |-> requests,
     calls |-> calls, tool_ok |-> tool_ok]

BackendRequest(messages, tools) == [messages |-> messages, tools |-> tools]

\* the exception a facade method raised
Raised(result) ==
    IF result.outcome = "raised" THEN result.result ELSE result.outcome

\* a follow-up that takes the two appended messages back when it fails
OpenAIFollowupRolledBack(messages, appended, calls, followup) ==
    IF followup.raised
    THEN Outcome(TRUE, followup.value, messages,
                 <<BackendRequest(messages, TRUE), BackendRequest(appended, FALSE)>>,
                 calls, TRUE)
    ELSE Outcome(FALSE, followup.value.content, appended,
                 <<BackendRequest(messages, TRUE), BackendRequest(appended, FALSE)>>,
                 calls, TRUE)

\* _call_openai: the follow-up request, without tools, and its answer
OpenAIFollowup(messages, appended, calls, followup) ==
    IF followup.raised
    THEN Outcome(TRUE, followup.value, appended,
                 <<BackendRequest(messages, TRUE), BackendRequest(appended, FALSE)>>,
                 calls, TRUE)
    ELSE Outcome(FALSE, followup.value.content, appended,
                 <<BackendRequest(messages, TRUE), BackendRequest(appended, FALSE)>>,
                 calls, TRUE)

\* _call_openai, from the tool's result on: append the invocation and its
\* result to messages, then the follow-up request
OpenAIAfterTool(messages, tool_call, calls, result, followup) ==
    IF result.outcome # "ok"
    THEN Outcome(TRUE, Raised(result), messages,
                 <<BackendRequest(messages, TRUE)>>, calls, FALSE)
    ELSE OpenAIFollowup(messages,
                        messages \o
                            <<[role |-> "assistant", content |-> NoContent,
                               tool_calls |-> <<tool_call>>],
                              [role |-> "tool", tool_call_id |-> tool_call.id,
                               content |-> result.result]>>,
                        calls, followup)

\* _call_openai, once the tool arguments are parsed
OpenAITool(messages, tool_call, tool_args, io, followup) ==
    IF tool_args.raised
    THEN Outcome(TRUE, tool_args.value, messages,
                 <<BackendRequest(messages, TRUE)>>, <<>>, FALSE)
    ELSE OpenAIAfterTool(messages, tool_call,
                         <<[name |-> tool_call.name, arguments |-> tool_args.value]>>,
                         call_tool(tool_call.name, tool_args.value, io), followup)

\* _call_openai(messages)
_call_openai(messages, first, io, followup) ==
    IF first.raised
    THEN Outcome(TRUE, first.value, messages, <<BackendRequest(messages, TRUE)>>,
                 <<>>, FALSE)
    ELSE IF OpenAISignals(first.value)
    THEN OpenAITool(messages, FirstToolCall(first.value.tool_calls),
                    JsonLoads(FirstToolCall(first.value.tool_calls).arguments),
                    io, followup)
    ELSE Outcome(FALSE, first.value.content, messages,
                 <<BackendRequest(messages, TRUE)>>, <<>>, FALSE)

\* _call_claude / _call_bedrock: the follow-up request and its answer; callers
\* is the caller's list, appended the local one
ClaudeFollowup(local, callers, appended, calls, followup, missing) ==
    IF followup.raised
    THEN Outcome(TRUE, followup.value, callers,
                 <<BackendRequest(local, TRUE), BackendRequest(appended, TRUE)>>,
                 calls, TRUE)
    ELSE Outcome(FirstBlockText(followup.value.content, missing).raised,
                 FirstBlockText(followup.value.content, missing).value, callers,
                 <<BackendRequest(local, TRUE), BackendRequest(appended, TRUE)>>,
                 calls, TRUE)

\* the local list with the tool invocation and its result appended
ClaudeAppended(local, response, tool_use, result) ==
    local \o <<[role |-> "assistant", content |-> response.content],
               [role |-> "user",
                content |-> <<[type |-> "tool_result", tool_use_id |-> tool_use.id,
                               content |-> result.result]>>]>>

\* _call_claude / _call_bedrock, from the tool's result on.  aliased: local is
\* the caller's list itself and not the copy messages[1:]
ClaudeAfterTool(messages, local, aliased, response, tool_use, calls, result, followup, missing) ==
    IF result.outcome # "ok"
    THEN Outcome(TRUE, Raised(result), messages, <<BackendRequest(local, TRUE)>>,
                 calls, FALSE)
    ELSE ClaudeFollowup(local,
                        IF aliased
                        THEN ClaudeAppended(local, response, tool_use, result)
                        ELSE messages,
                        ClaudeAppended(local, response, tool_use, result),
                        calls, followup, missing)

\* _call_claude / _call_bedrock, once the tool_use block is looked up
ClaudeTool(messages, local, aliased, response, tool_use, io, followup, missing) ==
    IF tool_use.raised
    THEN Outcome(TRUE, tool_use.value, messages, <<BackendRequest(local, TRUE)>>,
                 <<>>, FALSE)
    ELSE ClaudeAfterTool(messages, local, aliased, response, tool_use.value,
                         <<[name |-> tool_use.value.name,
                            arguments |-> tool_use.value.input]>>,
                         call_tool(tool_use.value.name, tool_use.value.input, io),
                         followup, missing)

\* _call_claude / _call_bedrock after the system message is split off
ClaudeRequest(messages, local, aliased, first, io, followup, missing) ==
    IF first.raised
    THEN Outcome(TRUE, first.value, messages, <<BackendRequest(local, TRUE)>>,
                 <<>>, FALSE)
    ELSE IF ClaudeSignals(first.value)
    THEN ClaudeTool(messages, local, aliased, first.value,
                    FirstToolUse(first.value.content), io, followup, missing)
    ELSE Outcome(FirstBlockText(first.value.content, missing).raised,
                 FirstBlockText(first.value.content, missing).value, messages,
                 <<BackendRequest(local, TRUE)>>, <<>>, FALSE)

\* the system message deleted from the caller's list instead of sliced off
CallClaudeLikeInPlace(messages, first, io, followup, missing) ==
    IF messages # <<>> /\ messages[1].role = "system"
    THEN ClaudeRequest(Tail(messages), Tail(messages), TRUE, first, io, followup, missing)
    ELSE ClaudeRequest(messages, messages, TRUE, first, io, followup, missing)

\* _call_claude(messages) and _call_bedrock(messages): the same steps, on SDK
\* objects and on parsed JSON; missing is what reading the text of a block
\* without one raises.  messages = messages[1:] rebinds the name to a copy.
CallClaudeLike(messages, first, io, followup, missing) ==
    IF messages # <<>> /\ messages[1].role = "system"
    THEN ClaudeRequest(messages, Tail(messages), FALSE, first, io, followup, missing)
    ELSE ClaudeRequest(messages, messages, TRUE, first, io, followup, missing)

_call_claude(messages, first, io, followup) ==
    CallClaudeLike(messages, first, io, followup, "AttributeError")

_call_bedrock(messages, first, io, followup) ==
    CallClaudeLike(messages, first, io, followup, "KeyError")

UserMessage(query) == [role |-> "user", content |-> <<Str(query)>>]

ErrorText(e) == <<Lit("Error processing query: "), Lit(e)>>

\* process_query: the call of the backend the provider names
CallBackend(messages, first, io, followup) ==
    IF provider = "openai" THEN _call_openai(messages, first, io, followup)
    ELSE IF provider = "anthropic" THEN _call_claude(messages, first, io, followup)
    ELSE _call_bedrock(messages, first, io, followup)

\* process_query that returns the answer without appending it
AnsweredNoAppend(r) ==
    [value |-> IF r.raised THEN ErrorText(r.value) ELSE r.value,
     raised |-> FALSE,
     exception |-> IF r.raised THEN r.value ELSE "",
     history |-> r.messages,
     requests |-> r.requests, calls |-> r.calls, tool_ok |-> r.tool_ok]

\* process_query without its except clause: what the backend call raised
\* is raised to run()
AnsweredUncaught(r) ==
    [value |-> r.value,
     raised |-> r.raised,
     exception |-> IF r.raised THEN r.value ELSE "",
     history |-> IF r.raised THEN r.messages
                 ELSE Append(r.messages, [role |-> "assistant", content |-> r.value]),
     requests |-> r.requests, calls |-> r.calls, tool_ok |-> r.tool_ok]

\* process_query, after the backend call r: the except clause turns what was
\* raised into the returned text; otherwise the answer is appended.  value is
\* what process_query returns, raised whether it raises, history the caller's
\* list afterwards, exception what the except clause caught ("" for nothing)
Answered(r) ==
    [value |-> IF r.raised THEN ErrorText(r.value) ELSE r.value,
     raised |-> FALSE,
     exception |-> IF r.raised THEN r.value ELSE "",
     history |-> IF r.raised THEN r.messages
                 ELSE Append(r.messages, [role |-> "assistant", content |-> r.value]),
     requests |-> r.requests, calls |-> r.calls, tool_ok |-> r.tool_ok]

\* process_query that adds the user's message only once the backend answered
process_query_append_late(query, history, first, io, followup) ==
    Answered(CallBackend(history, first, io, followup))

\* process_query(query, conversation_history)
process_query(query, history, first, io, followup) ==
    Answered(CallBackend(Append(history, UserMessage(query)), first, io, followup))

(***************************************************************************)
(* What the backends may answer.                                           *)
(***************************************************************************)
Text(x) == <<Lit(x)>>

Json(value) == [valid |-> TRUE, value |-> value]
MalformedJson == [valid |-> FALSE, value |-> <<>>]

\* the tool invocations a backend asks for: a known city in mixed case, an
\* unknown city, a tool the provider does not have
RequestedTools ==
    << [name |-> "get_current_weather",
        arguments |-> [city |-> PyStr(<<"L","o","n","d","o","n">>)]],
       [name |-> "get_current_weather", arguments |-> [city |-> PyStr(atlantis)]],
       [name |-> "get_forecast", arguments |-> <<>>] >>

OpenAIToolCall(i) ==
    [id |-> i, name |-> RequestedTools[i].name,
     arguments |-> Json(RequestedTools[i].arguments)]

ToolUseBlock(i) ==
    [type |-> "tool_use", id |-> i, name |-> RequestedTools[i].name,
     input |-> RequestedTools[i].arguments]

TextBlock(x) == [type |-> "text", text |-> Text(x)]

OpenAIFirstReplies ==
    {Raise("APIError"),
     Return([content |-> Text("It is rainy in London."), tool_calls |-> <<>>]),
     Return([content |-> NoContent,
             tool_calls |-> <<[id |-> 4, name |-> "get_current_weather",
                               arguments |-> MalformedJson]>>])}
    \cup {Return([content |-> NoContent, tool_calls |-> <<OpenAIToolCall(i)>>]) : i \in 1..3}
    \cup {Return([content |-> NoContent,
                  tool_calls |-> <<OpenAIToolCall(i), OpenAIToolCall(j)>>]) :
             i \in 1..2, j \in 1..2}

\* the follow-up request passes no tools
OpenAIFollowups ==
    {Raise("APIError"),
     Return([content |-> Text("London: 58F and rainy."), tool_calls |-> <<>>])}

ClaudeFirstReplies ==
    {Raise("APIError"),
     Return([stop_reason |-> "end_turn",
             content |-> <<TextBlock("It is rainy in London.")>>]),
     Return([stop_reason |-> "max_tokens",
             content |-> <<TextBlock("It is rainy in")>>])}
    \cup {Return([stop_reason |-> "tool_use", content |-> <<ToolUseBlock(i)>>]) :
             i \in 1..3}
    \cup {Return([stop_reason |-> "tool_use",
                  content |-> <<TextBlock("Let me check."), ToolUseBlock(i),
                                ToolUseBlock(j)>>]) : i \in 1..2, j \in 1..2}

\* the follow-up request passes the tools again: the model may ask for another
ClaudeFollowups ==
    {Raise("APIError"),
     Return([stop_reason |-> "end_turn",
             content |-> <<TextBlock("London: 58F and rainy.")>>]),
     Return([stop_reason |-> "tool_use", content |-> <<ToolUseBlock(2)>>]),
     Return([stop_reason |-> "tool_use",
             content |-> <<TextBlock("Let me check."), ToolUseBlock(2)>>])}

FirstReplies == IF provider = "openai" THEN OpenAIFirstReplies ELSE ClaudeFirstReplies
Followups == IF provider = "openai" THEN OpenAIFollowups ELSE ClaudeFollowups

(***************************************************************************)
(* run(): connect(), then the input loop, then disconnect() in finally.    *)
(***************************************************************************)
\* str.strip(), of blanks
RECURSIVE LStrip(_)
LStrip(s) == IF s # <<>> /\ s[1] = " " THEN LStrip(Tail(s)) ELSE s

RECURSIVE RStrip(_)
RStrip(s) ==
    IF s # <<>> /\ s[Len(s)] = " " THEN RStrip(SubSeq(s, 1, Len(s) - 1)) ELSE s

Strip(s) == LStrip(RStrip(s))

QuitWords == {<<"q","u","i","t">>, <<"e","x","i","t">>, <<"q">>}

\* the lines input() returns
QueryLines == {<<"L","o","n","d","o","n","?">>, <<" ","Q","u","i","t","e"," ","h","o","t","?">>}
QuitLines == {<<"q","u","i","t">>, <<"E","x","i","t"," ">>, <<"Q">>}

\* the queries process_query has been given, counted in the history
IsQuery(m) == m.role = "user" /\ "t" \in DOMAIN m.content[1]
NumQueries == Len(SelectSeq(conversation_history, IsQuery))

\* run(): await self.connect(), first step: connect_to_server
RunConnect ==
    /\ pc = "start"
    /\ \E fails \in ConnectSteps :
          /\ DoConnect(fails)
          /\ pc' = IF fails = "none" THEN "list_tools" ELSE "finally"
    /\ UNCHANGED <<provider, tools_info, resources_info, conversation_history>>

\* connect(): self.tools_info = await self.client.list_tools()
RunListTools ==
    /\ pc = "list_tools"
    /\ \E io \in IOs :
          LET r == list_tools(io)
          IN  /\ DoCall("list_tools", <<>>, io, r)
              /\ UNCHANGED weather_data
              /\ tools_info' = IF r.outcome = "ok" THEN r.result ELSE tools_info
              /\ pc' = IF r.outcome = "ok" THEN "list_resources" ELSE "finally"
    /\ UNCHANGED <<provider, resources_info, conversation_history>>

\* connect(): self.resources_info = await self.client.list_resources(); then
\* run() creates the conversation with the system message
RunListResources ==
    /\ pc = "list_resources"
    /\ \E io \in IOs :
          LET r == list_resources(io)
          IN  /\ DoCall("list_resources", <<>>, io, r)
              /\ UNCHANGED weather_data
              /\ resources_info' = IF r.outcome = "ok" THEN r.result ELSE resources_info
              /\ conversation_history' =
                     IF r.outcome = "ok" THEN <<SystemMessage>> ELSE conversation_history
              /\ pc' = IF r.outcome = "ok" THEN "loop" ELSE "finally"
    /\ UNCHANGED <<provider, tools_info>>

\* the loop body for a query, once process_query has answered with r; what
\* process_query raises is caught by neither except clause of the loop
Queried(query, first, io, followup, r) ==
    /\ query # <<>>
    /\ Lower(query) \notin QuitWords
    /\ conversation_history' = r.history
    /\ pc' = IF r.raised THEN "finally" ELSE "loop"
    /\ last' = [op |-> "process_query", query |-> query, io |-> io,
                history_before |-> conversation_history,
                replies |-> IF Len(r.requests) = 2 THEN <<first, followup>>
                            ELSE <<first>>,
                requests |-> r.requests, calls |-> r.calls, tool_ok |-> r.tool_ok,
                exception |-> r.exception, raised |-> r.raised, returned |-> r.value]
    /\ UNCHANGED <<weather_data, session, exit_stack, ever_connected, disconnected,
                   provider, tools_info, resources_info>>

\* the loop body for a line that is a query
RunQuery ==
    /\ pc = "loop"
    /\ NumQueries < MaxQueries
    /\ \E line \in QueryLines, first \in FirstReplies, io \in IOs, followup \in Followups :
          Queried(Strip(line), first, io, followup,
                  process_query(Strip(line), conversation_history, first, io, followup))

\* the loop body for quit, exit or q, and for the end of input: break
RunQuit ==
    /\ pc = "loop"
    /\ \E line \in QuitLines \cup {<<"EOFError">>} :
          /\ line = <<"EOFError">> \/ Lower(Strip(line)) \in QuitWords
          /\ last' = [op |-> "input", line |-> line]
    /\ pc' = "finally"
    /\ UNCHANGED <<weather_data, session, exit_stack, ever_connected, disconnected,
                   provider, tools_info, resources_info, conversation_history>>

(***************************************************************************)
(* A user interrupt (SIGINT) while the loop is active.  Where it surfaces  *)
(* is the interpreter's choice:                                            *)
(*   "input"   KeyboardInterrupt out of input(): except KeyboardInterrupt  *)
(*             prints and continues the loop;                              *)
(*   "request" KeyboardInterrupt out of the blocking backend request of    *)
(*             process_query, after the user's message was appended: it is *)
(*             no Exception, so process_query lets it through, and the     *)
(*             loop's except KeyboardInterrupt prints and continues;       *)
(*   "cancel"  asyncio.run's handler cancels the task instead: the         *)
(*             CancelledError surfaces at an await of process_query and    *)
(*             passes both except clauses to the finally.                  *)
(***************************************************************************)
InterruptPoints == {"input", "request", "cancel"}

RunInterrupt ==
    /\ pc = "loop"
    /\ \E at \in InterruptPoints, line \in QueryLines :
          /\ at # "input" => NumQueries < MaxQueries
          /\ conversation_history' =
                 IF at = "input" THEN conversation_history
                 ELSE Append(conversation_history, UserMessage(Strip(line)))
          /\ pc' = IF at = "cancel" THEN "finally" ELSE "loop"
          /\ last' = [op |-> "interrupt", at |-> at,
                      history_before |-> conversation_history]
    /\ UNCHANGED <<weather_data, session, exit_stack, ever_connected, disconnected,
                   provider, tools_info, resources_info>>

\* finally: await self.disconnect()
RunDisconnect ==
    /\ pc = "finally"
    /\ \E aclose_raises \in BOOLEAN : DoDisconnect(aclose_raises)
    /\ pc' = "done"
    /\ UNCHANGED <<provider, tools_info, resources_info, conversation_history>>

\* main(): LLMInteractiveClient(provider=provider), before run()
InitRun ==
    /\ weather_data = SeededWeatherData
    /\ session = None
    /\ exit_stack = <<>>
    /\ ever_connected = FALSE
    /\ disconnected = FALSE
    /\ provider \in Providers
    /\ tools_info = <<>>
    /\ resources_info = <<>>
    /\ conversation_history = <<>>
    /\ pc = "start"
    /\ last = [op |-> "init", outcome |-> "ok"]

NextRun ==
    \/ RunConnect
    \/ RunListTools
    \/ RunListResources
    \/ RunQuery
    \/ RunQuit
    \/ RunInterrupt
    \/ RunDisconnect

SpecRun == InitRun /\ [][NextRun]_vars

-----------------------------------------------------------------------------
(***************************************************************************)
(* Properties of the facade and the provider.                              *)
(***************************************************************************)
\* the last call was facade method op, and its request reached the handler
Delivered(op) ==
    /\ last.op = op
    /\ last.sent = 1
    /\ last.io = "deliver"

\* the text has the literal piece lit
HasLit(text, lit) == \E i \in DOMAIN text : text[i] = Lit(lit)

\* the text names every key of the weather mapping
NamesAllKeys(text) ==
    \A k \in DOMAIN weather_data : \E i \in DOMAIN text : text[i] = Str(weather_data[k].key)

\* C1: while no connect_to_server call has completed successfully, every
\* facade method fails with the not-connected RuntimeError and sends no
\* request on the transport.
C1_NotConnectedUntilSuccess ==
    (last.op \in FacadeMethods /\ ~ever_connected)
        => (last.outcome = NotConnected.outcome /\ last.sent = 0)

\* C2 as stated: connect_to_server on a connected client fails, opens no
\* second transport and keeps the existing session.
C2_SecondConnectRejected ==
    (last.op = "connect_to_server" /\ last.connected_before)
        => /\ last.outcome = "raised"
           /\ Transports = last.transports_before
           /\ session = last.session_before

\* C2 amended: connect_to_server on a connected client is not guarded.  It
\* raises exactly when one of its own steps raises; unless opening the
\* stdio transport raises it opens a further transport; once the new
\* ClientSession is entered (also when initialize() then raises) the
\* session attribute holds the new session instead of the existing one, and
\* otherwise the existing one is kept.
C2_SecondConnectUnguarded ==
    (last.op = "connect_to_server" /\ last.connected_before)
        => /\ (last.outcome = "raised") <=> (last.fails # "none")
           /\ (last.fails # "stdio") => (Transports = last.transports_before + 1)
           /\ (last.fails = "stdio") => (Transports = last.transports_before)
           /\ (last.fails \in {"initialize", "none"})
                 => (session # last.session_before /\ SessionOpen(session))
           /\ (last.fails \in {"stdio", "session"}) => (session = last.session_before)

C2_Witness ==
    /\ last.op = "connect_to_server"
    /\ last.connected_before
    /\ last.outcome = "ok"
    /\ Transports = 2
    /\ session # last.session_before

\* the city argument is a str (or missing) whose lower-cased form is no key
UnknownCityArgument(arguments) ==
    /\ Get(arguments, "city").type = "str"
    /\ ~InData(Lower(Get(arguments, "city").s))

\* C8: for every city argument whose lower-cased form is not a seeded key
\* (empty and missing included) get_current_weather raises no fault and
\* returns a text that contains "Unknown city" and names all the valid keys.
C8_UnknownCitySoftError ==
    (/\ Delivered("call_tool")
     /\ last.input.name = "get_current_weather"
     /\ UnknownCityArgument(last.input.arguments))
        => /\ last.outcome = "ok"
           /\ HasLit(last.result, "Error: Unknown city '")
           /\ NamesAllKeys(last.result)

C8_Witness ==
    /\ Delivered("call_tool")
    /\ last.input.name = "get_current_weather"
    /\ last.input.arguments = <<>>
    /\ last.outcome = "ok"
    /\ HasLit(last.result, "Error: Unknown city '")

ListedToolNames ==
    {handle_list_tools.value[i].name : i \in DOMAIN handle_list_tools.value}

\* C9: for every tool name other than the three tools, and any arguments,
\* call_tool raises no fault and returns a single text payload reporting the
\* unknown tool, which the facade returns as a normal result.
C9_UnknownToolSoftError ==
    (/\ Delivered("call_tool")
     /\ last.input.name \notin
            {"get_current_weather", "compare_weather", "get_temperature_summary"})
        => LET handled == handle_call_tool(last.input.name, last.input.arguments)
           IN  /\ ~handled.raised
               /\ Len(handled.value) = 1
               /\ handled.value[1].type = "text"
               /\ last.outcome = "ok"
               /\ last.result = <<Lit("Error: Unknown tool '"), Lit(last.input.name),
                                  Lit("'")>>

C9_Witness ==
    /\ Delivered("call_tool")
    /\ last.input.name = "get_forecast"
    /\ last.input.arguments = [city |-> PyInt]
    /\ last.outcome = "ok"

\* the tool descriptor list_tools gives for name
ToolNamed(name) ==
    handle_list_tools.value[CHOOSE i \in DOMAIN handle_list_tools.value :
                                handle_list_tools.value[i].name = name]

\* the arguments satisfy the input schema: every required property is there
\* and every declared property given is a string
SatisfiesSchema(arguments, schema) ==
    /\ schema.required \subseteq DOMAIN arguments
    /\ \A k \in DOMAIN arguments \cap schema.properties : arguments[k].type = "str"

\* some declared city property of the arguments is no key of the mapping
SomeCityUnknown(arguments, schema) ==
    \E k \in DOMAIN arguments \cap schema.properties : ~InData(Lower(arguments[k].s))

\* C10: for every tool name list_tools returns, call_tool with arguments
\* that satisfy the tool's input schema returns a text payload and raises no
\* fault; where a city is unknown the payload is the soft error text.
C10_ListedToolsNeverFault ==
    (/\ Delivered("call_tool")
     /\ last.input.name \in ListedToolNames
     /\ SatisfiesSchema(last.input.arguments, ToolNamed(last.input.name).inputSchema))
        => /\ last.outcome = "ok"
           /\ last.result # <<>>
           /\ SomeCityUnknown(last.input.arguments, ToolNamed(last.input.name).inputSchema)
                 => /\ last.result[1].t = "lit"
                    /\ last.result[1].lit \in
                           {"Error: Unknown city '",
                            "Error: One or both cities not found. Available cities: "}
                    /\ NamesAllKeys(last.result)

C10_Witness ==
    /\ Delivered("call_tool")
    /\ last.input.name = "compare_weather"
    /\ last.input.arguments = [city1 |-> PyStr(london), city2 |-> PyStr(atlantis)]
    /\ last.outcome = "ok"
    /\ HasLit(last.result, "Error: One or both cities not found. Available cities: ")

\* the text has the number n as a piece
HasNum(text, n) == \E i \in DOMAIN text : text[i] = Num(n)

\* the argument key is a str whose lower-cased form is a key of the mapping
KnownCityArgument(arguments, key) ==
    /\ key \in DOMAIN arguments
    /\ arguments[key].type = "str"
    /\ InData(Lower(arguments[key].s))

\* the record the argument key resolves to
RecordOf(arguments, key) == Lookup(Lower(arguments[key].s))

\* C11: for every city argument whose lower-cased form is a seeded key,
\* whatever its letter case, get_current_weather returns the multi-line
\* summary of that key's record: display name, temperature, conditions,
\* humidity and wind speed; london gives "London" and 58.
C11_KnownCitySummary ==
    (/\ Delivered("call_tool")
     /\ last.input.name = "get_current_weather"
     /\ KnownCityArgument(last.input.arguments, "city"))
        => LET d == RecordOf(last.input.arguments, "city")
           IN  /\ last.outcome = "ok"
               /\ last.result =
                      <<Lit("Current weather in "), Lit(d.city),
                        Lit(":\nTemperature: "), Num(d.temperature),
                        Lit("°F\nConditions: "), Lit(d.conditions),
                        Lit("\nHumidity: "), Num(d.humidity),
                        Lit("%\nWind Speed: "), Num(d.wind_speed), Lit(" mph")>>
               /\ Lower(last.input.arguments.city.s) = london
                     => HasLit(last.result, "London") /\ HasNum(last.result, 58)

\* C11 witness: a city given in upper case was answered with its record.
C11_Witness ==
    /\ Delivered("call_tool")
    /\ last.input.name = "get_current_weather"
    /\ last.input.arguments = [city |-> PyStr(<<"T","O","K","Y","O">>)]
    /\ last.outcome = "ok"
    /\ HasLit(last.result, "Tokyo")
    /\ HasNum(last.result, 68)

\* the piece of the text that follows the literal lit by offset places
PieceAfter(text, lit, offset) ==
    text[(CHOOSE i \in DOMAIN text : text[i] = Lit(lit)) + offset]

\* C12: for every ordered pair of known cities compare_weather reports the
\* difference |T(c1) - T(c2)| and labels c1 warmer, cooler or the same
\* temperature by the sign of T(c1) - T(c2); (new_york, tokyo) gives 4 and
\* New York warmer.
C12_CompareBySign ==
    (/\ Delivered("call_tool")
     /\ last.input.name = "compare_weather"
     /\ KnownCityArgument(last.input.arguments, "city1")
     /\ KnownCityArgument(last.input.arguments, "city2"))
        => LET w1 == RecordOf(last.input.arguments, "city1")
               w2 == RecordOf(last.input.arguments, "city2")
               t1 == w1.temperature
               t2 == w2.temperature
               diff == PieceAfter(last.result, "\n\nTemperature difference: ", 1)
               who == PieceAfter(last.result, "\n\nTemperature difference: ", 3)
               label == PieceAfter(last.result, "\n\nTemperature difference: ", 5)
           IN  /\ last.outcome = "ok"
               /\ HasLit(last.result, "\n\nTemperature difference: ")
               /\ diff = Num(IF t1 >= t2 THEN t1 - t2 ELSE t2 - t1)
               /\ who = Lit(w1.city)
               /\ (t1 > t2) => label = Lit("warmer")
               /\ (t1 < t2) => label = Lit("cooler")
               /\ (t1 = t2) => label = Lit("the same temperature")
               /\ (/\ Lower(last.input.arguments.city1.s) = new_york
                   /\ Lower(last.input.arguments.city2.s) = tokyo)
                     => /\ diff = Num(4)
                        /\ who = Lit("New York")
                        /\ label = Lit("warmer")

\* C12 witness: london against tokyo was answered with 10 and "cooler".
C12_Witness ==
    /\ Delivered("call_tool")
    /\ last.input.name = "compare_weather"
    /\ last.input.arguments = [city1 |-> PyStr(<<"L","o","n","d","o","n">>),
                               city2 |-> PyStr(tokyo)]
    /\ last.outcome = "ok"
    /\ HasNum(last.result, 10)
    /\ HasLit(last.result, "cooler")

\* city1 and city2 are strings or missing, and one of them resolves to no key
SomeCityMisses(arguments) ==
    /\ Get(arguments, "city1").type = "str"
    /\ Get(arguments, "city2").type = "str"
    /\ \/ ~InData(Lower(Get(arguments, "city1").s))
       \/ ~InData(Lower(Get(arguments, "city2").s))

\* C13: when city1 or city2 is missing or resolves to no key, compare_weather
\* raises no fault, computes no comparison and returns the soft error text
\* that names the valid keys; a comparison is produced only when both resolve.
C13_CompareMissSoftError ==
    (Delivered("call_tool") /\ last.input.name = "compare_weather")
        => /\ SomeCityMisses(last.input.arguments)
                 => /\ last.outcome = "ok"
                    /\ last.result[1] =
                           Lit("Error: One or both cities not found. Available cities: ")
                    /\ NamesAllKeys(last.result)
                    /\ ~HasLit(last.result, "Weather Comparison:\n\n")
           /\ (last.outcome = "ok" /\ HasLit(last.result, "Weather Comparison:\n\n"))
                 => /\ KnownCityArgument(last.input.arguments, "city1")
                    /\ KnownCityArgument(last.input.arguments, "city2")

\* C13 witness: a known city1 with a missing city2 got the soft error text.
C13_Witness ==
    /\ Delivered("call_tool")
    /\ last.input.name = "compare_weather"
    /\ last.input.arguments = [city1 |-> PyStr(london)]
    /\ last.outcome = "ok"
    /\ HasLit(last.result, "Error: One or both cities not found. Available cities: ")

\* C15: for each seeded key k, read_resource("weather://k") returns a
\* payload holding that record's display name and fields and a timestamp;
\* for every uri whose city key is not in the mapping it fails with the
\* not-found fault and returns no payload.
C15_ReadResourceByKey ==
    Delivered("read_resource")
        => /\ \A k \in DOMAIN weather_data :
                 last.input.uri = <<WeatherScheme>> \o weather_data[k].key
                    => /\ last.outcome = "ok"
                       /\ Len(last.result) = 1
                       /\ last.result[1].t = "json"
                       /\ \A f \in DOMAIN weather_data[k].data :
                             /\ f \in DOMAIN last.result[1].obj
                             /\ last.result[1].obj[f] = weather_data[k].data[f]
                       /\ "timestamp" \in DOMAIN last.result[1].obj
                       /\ last.result[1].obj.timestamp \in Timestamps
           /\ ~InData(StripScheme(last.input.uri))
                 => /\ last.outcome = "raised"
                    /\ last.result = "ValueError"

\* C15 witness: weather://tokyo was read and gave Tokyo's record with a
\* timestamp.
C15_Witness ==
    /\ Delivered("read_resource")
    /\ last.input.uri = <<WeatherScheme>> \o tokyo
    /\ last.outcome = "ok"
    /\ last.result[1].obj.city = "Tokyo"
    /\ last.result[1].obj.temperature = 68
    /\ last.result[1].obj.timestamp \in Timestamps

\* C16: list_resources, once its request is delivered, succeeds and returns
\* exactly one descriptor per key of the mapping, with pairwise distinct
\* uris weather://<city_key> (four of them, weather://new_york included); it
\* changes nothing of the provider, the client or the dispatcher.
C16_ListResourcesPerKey ==
    /\ [](Delivered("list_resources")
            => /\ last.outcome = "ok"
               /\ Len(last.result) = Len(weather_data)
               /\ Len(last.result) = 4
               /\ \A i \in DOMAIN last.result :
                     last.result[i].uri = <<WeatherScheme>> \o weather_data[i].key
               /\ \A i, j \in DOMAIN last.result :
                     i # j => last.result[i].uri # last.result[j].uri
               /\ \E i \in DOMAIN last.result :
                     last.result[i].uri = <<WeatherScheme>> \o new_york)
    /\ [][last'.op = "list_resources"
            => UNCHANGED <<weather_data, session, exit_stack, ever_connected,
                           disconnected, dispatcher_vars>>]_vars

\* C16 witness: list_resources answered, after a call that failed on the
\* transport, with the four descriptors.
C16_Witness ==
    /\ Delivered("list_resources")
    /\ last.outcome = "ok"
    /\ Len(last.result) = 4
    /\ last.result[1].uri = <<WeatherScheme>> \o new_york
    /\ Transports = 2

\* C17: get_prompt with a name other than weather_report and
\* travel_weather_advice fails with the not-found fault, and the facade's
\* get_prompt raises it to its caller instead of returning a result.
C17_UnknownPromptFault ==
    (/\ Delivered("get_prompt")
     /\ last.input.name \notin {"weather_report", "travel_weather_advice"})
        => /\ handle_get_prompt(last.input.name, last.input.arguments) = Raise("ValueError")
           /\ last.outcome = "raised"
           /\ last.result = "ValueError"

\* C17 witness: get_prompt("weather_summary") with a known city raised.
C17_Witness ==
    /\ Delivered("get_prompt")
    /\ last.input.name = "weather_summary"
    /\ last.input.arguments = [city |-> PyStr(paris)]
    /\ last.outcome = "raised"

\* some message of the prompt result has the literal piece lit in its text
PromptHasLit(result, lit) ==
    \E i \in DOMAIN result.messages : HasLit(result.messages[i].content.text, lit)

\* C18: get_prompt("weather_report") with a city that is not in the mapping
\* does not fail, and the prompt returned contains the inline error string
\* for the unknown city.
C18_WeatherReportInlineError ==
    (/\ Delivered("get_prompt")
     /\ last.input.name = "weather_report"
     /\ UnknownCityArgument(last.input.arguments))
        => /\ last.outcome = "ok"
           /\ \/ PromptHasLit(last.result, "Error: Unknown city '")
              \/ HasLit(last.result.description, "Error: Unknown city '")

\* the tool arguments name, as strings, a city that is no key of the mapping
ToolCityAbsent(call) ==
    \/ call.name = "get_current_weather" /\ UnknownCityArgument(call.arguments)
    \/ call.name = "compare_weather" /\ SomeCityMisses(call.arguments)

\* the prompt arguments name, as strings, a city that is no key of the mapping
PromptCityAbsent(call) ==
    \/ call.name = "weather_report" /\ UnknownCityArgument(call.arguments)
    \/ /\ call.name = "travel_weather_advice"
       /\ Get(call.arguments, "origin").type = "str"
       /\ Get(call.arguments, "destination").type = "str"
       /\ \/ ~InData(Lower(Get(call.arguments, "origin").s))
          \/ ~InData(Lower(Get(call.arguments, "destination").s))

\* C19: every tool or prompt invocation that references a city key absent
\* from the mapping produces a user-visible error string and no fault;
\* get_prompt("travel_weather_advice") with an unknown origin or destination
\* returns a result that carries such an error string.
C19_AbsentCityErrorString ==
    /\ (Delivered("call_tool") /\ ToolCityAbsent(last.input))
          => /\ last.outcome = "ok"
             /\ last.result # <<>>
             /\ last.result[1].t = "lit"
             /\ last.result[1].lit \in
                    {"Error: Unknown city '",
                     "Error: One or both cities not found. Available cities: "}
    /\ (Delivered("get_prompt") /\ PromptCityAbsent(last.input))
          => /\ last.outcome = "ok"
             /\ \E i \in DOMAIN last.result.messages :
                   \E j \in DOMAIN last.result.messages[i].content.text :
                       /\ last.result.messages[i].content.text[j].t = "lit"
                       /\ last.result.messages[i].content.text[j].lit \in
                              {"Error: Unknown city '",
                               "Error: One or both cities not found. Available cities: "}

\* record i is the first in mapping order among those with its temperature
FirstAtItsTemperature(i) ==
    \A j \in DOMAIN weather_data :
        weather_data[j].data.temperature = weather_data[i].data.temperature => i <= j

\* the first record in mapping order at the highest temperature
FirstHottest ==
    weather_data[CHOOSE i \in DOMAIN weather_data :
        /\ \A j \in DOMAIN weather_data :
              weather_data[j].data.temperature <= weather_data[i].data.temperature
        /\ FirstAtItsTemperature(i)].data

\* the first record in mapping order at the lowest temperature
FirstColdest ==
    weather_data[CHOOSE i \in DOMAIN weather_data :
        /\ \A j \in DOMAIN weather_data :
              weather_data[j].data.temperature >= weather_data[i].data.temperature
        /\ FirstAtItsTemperature(i)].data

\* C14: get_temperature_summary, for any arguments, reports as hottest
\* (coldest) the first record in mapping order at the maximum (minimum)
\* temperature; over the four seeded records it reports average 65.0,
\* hottest New York at 72 and coldest London at 58.
C14_SummaryFirstMatchWins ==
    (Delivered("call_tool") /\ last.input.name = "get_temperature_summary")
        => /\ last.outcome = "ok"
           /\ PieceAfter(last.result, "°F\nHottest: ", 1) = Lit(FirstHottest.city)
           /\ PieceAfter(last.result, "°F\nHottest: ", 3) = Num(FirstHottest.temperature)
           /\ PieceAfter(last.result, "°F\nColdest: ", 1) = Lit(FirstColdest.city)
           /\ PieceAfter(last.result, "°F\nColdest: ", 3) = Num(FirstColdest.temperature)
           /\ weather_data = SeededWeatherData
                 => /\ last.result[2] = Dec1(650)
                    /\ PieceAfter(last.result, "°F\nHottest: ", 1) = Lit("New York")
                    /\ PieceAfter(last.result, "°F\nHottest: ", 3) = Num(72)
                    /\ PieceAfter(last.result, "°F\nColdest: ", 1) = Lit("London")
                    /\ PieceAfter(last.result, "°F\nColdest: ", 3) = Num(58)

\* C14 witness: two records tie at the maximum and two at the minimum, and
\* the summary names the first of each.
C14_Witness ==
    /\ Delivered("call_tool")
    /\ last.input.name = "get_temperature_summary"
    /\ last.input.arguments = [city |-> PyStr(atlantis)]
    /\ weather_data = WithTemperatures(<<58, 72, 72, 58>>)
    /\ PieceAfter(last.result, "°F\nHottest: ", 1) = Lit("London")
    /\ PieceAfter(last.result, "°F\nColdest: ", 1) = Lit("New York")

-----------------------------------------------------------------------------
(***************************************************************************)
(* The dispatcher: what one process_query did, read from last.             *)
(***************************************************************************)
Processed == last.op = "process_query"

\* the reply carries a tool-call signal: tool_calls for OpenAI, the stop
\* reason tool_use for Anthropic and Bedrock
ToolSignal(reply) ==
    /\ ~reply.raised
    /\ IF "tool_calls" \in DOMAIN reply.value
       THEN reply.value.tool_calls # <<>>
       ELSE reply.value.stop_reason = "tool_use"

\* the invocations a reply asks for, in the order it asks for them
RequestedCalls(reply) ==
    IF "tool_calls" \in DOMAIN reply.value
    THEN [i \in DOMAIN reply.value.tool_calls |->
            [name |-> reply.value.tool_calls[i].name,
             arguments |-> reply.value.tool_calls[i].arguments.value]]
    ELSE LET uses == SelectSeq(reply.value.content,
                               LAMBDA block : block.type = "tool_use")
         IN  [i \in DOMAIN uses |-> [name |-> uses[i].name, arguments |-> uses[i].input]]

\* the text a reply carries
ReplyText(reply) ==
    IF "tool_calls" \in DOMAIN reply.value THEN reply.value.content
    ELSE reply.value.content[1].text

\* the messages process_query added to the caller's history
AddedMessages ==
    SubSeq(conversation_history, Len(last.history_before) + 1, Len(conversation_history))

HasBlock(m, type) ==
    \E i \in DOMAIN m.content :
        "type" \in DOMAIN m.content[i] /\ m.content[i].type = type

IsToolInvocation(m) ==
    m.role = "assistant" /\ ("tool_calls" \in DOMAIN m \/ HasBlock(m, "tool_use"))

IsToolResult(m) ==
    \/ m.role = "tool"
    \/ m.role = "user" /\ HasBlock(m, "tool_result")

\* C3: a query makes at most two backend requests and at most one call_tool,
\* and the call made is the first one the backend's response asked for.
C3_OneToolCallTheFirst ==
    Processed =>
        /\ Len(last.requests) <= 2
        /\ Len(last.calls) <= 1
        /\ last.calls # <<>> =>
              /\ ToolSignal(last.replies[1])
              /\ last.calls[1] = RequestedCalls(last.replies[1])[1]

\* C3 witness: the response asked for two different invocations, one call was
\* made and the follow-up request was sent.
C3_Witness ==
    /\ Processed
    /\ ToolSignal(last.replies[1])
    /\ Len(RequestedCalls(last.replies[1])) = 2
    /\ RequestedCalls(last.replies[1])[1] # RequestedCalls(last.replies[1])[2]
    /\ Len(last.calls) = 1
    /\ Len(last.requests) = 2

\* C4: when the response signalled a tool call and the tool was executed, the
\* caller's history, which started with the system message, holds the
\* tool-invocation message and the tool-result message of the query.
C4_HistoryHoldsToolMessages ==
    (/\ Processed
     /\ ToolSignal(last.replies[1])
     /\ last.tool_ok
     /\ last.history_before[1].role = "system")
    => /\ \E i \in DOMAIN AddedMessages : IsToolInvocation(AddedMessages[i])
       /\ \E i \in DOMAIN AddedMessages : IsToolResult(AddedMessages[i])

\* C5: an exception anywhere in the round trip is not raised by
\* process_query; the returned text begins with "Error processing query: "
\* and the history holds the user's message of the query.
C5_ExceptionBecomesErrorText ==
    (Processed /\ last.exception # "") =>
        /\ ~last.raised
        /\ last.returned[1] = Lit("Error processing query: ")
        /\ Len(conversation_history) > Len(last.history_before)
        /\ AddedMessages[1] = UserMessage(last.query)

\* C5 witness: the tool call through the facade raised, after a first
\* response that asked for it, and the error text was returned.
C5_Witness ==
    /\ Processed
    /\ last.exception = "TransportError"
    /\ Len(last.requests) = 1
    /\ Len(last.calls) = 1
    /\ last.returned[1] = Lit("Error processing query: ")
    /\ AddedMessages[1] = UserMessage(last.query)

\* C6: when the first response signalled a tool call and neither call_tool
\* nor the follow-up request raised, the text of the follow-up response is
\* returned and not an error text.
C6_FollowupTextReturned ==
    (/\ Processed
     /\ ToolSignal(last.replies[1])
     /\ last.tool_ok
     /\ Len(last.replies) = 2
     /\ ~last.replies[2].raised)
    => /\ last.exception = ""
       /\ ~HasLit(last.returned, "Error processing query: ")

\* C7: a first response without a tool-call signal is answered with its text,
\* after exactly one backend request and without any call_tool.
C7_NoSignalReturnsText ==
    (/\ Processed
     /\ ~last.replies[1].raised
     /\ ~ToolSignal(last.replies[1]))
    => /\ Len(last.requests) = 1
       /\ last.calls = <<>>
       /\ last.exception = ""
       /\ last.returned = ReplyText(last.replies[1])

\* C7 witness: a response that stopped for another reason than a tool call
\* was answered with its text.
C7_Witness ==
    /\ Processed
    /\ ~last.replies[1].raised
    /\ ~ToolSignal(last.replies[1])
    /\ "stop_reason" \in DOMAIN last.replies[1].value
    /\ last.replies[1].value.stop_reason # "end_turn"
    /\ last.returned = ReplyText(last.replies[1])

\* C20: a user interrupt delivered while the loop of run() is active ends
\* the loop, so that the finally disconnects and no further query is read,
\* and it leaves no user message without an answer in a session that
\* continues.
C20_InterruptEndsSession ==
    (last.op = "interrupt")
        => /\ pc \in {"finally", "done"}
           /\ ~(pc = "loop" /\ Len(conversation_history) > Len(last.history_before))

\* C21: a fault raised by the backend or by the facade while a query is
\* processed does not end the loop and does not disconnect: it is turned
\* into the returned message and the loop reads on.  The loop is left only
\* by a quit command or the end of input (or by a user interrupt that
\* cancels the task).
C21_FaultKeepsLoop ==
    /\ []((Processed /\ last.exception # "")
            => /\ pc = "loop"
               /\ ~last.raised
               /\ last.returned = ErrorText(last.exception)
               /\ session # None
               /\ SessionOpen(session))
    /\ [][(pc = "loop" /\ pc' # "loop") => last'.op \in {"input", "interrupt"}]_vars

\* C21 witness: the facade's call_tool raised during the second query, and
\* the loop is still active with the session open.
C21_Witness ==
    /\ Processed
    /\ last.exception = "TransportError"
    /\ Len(last.history_before) > 1
    /\ pc = "loop"
    /\ SessionOpen(session)

\* C22: whichever way run() ends - quit, end of input or a failed connect -
\* disconnect has been called and the facade then holds no session and no
\* open transport.
C22_RunEndsDisconnected ==
    (pc = "done")
        => /\ last.op = "disconnect"
           /\ session = None
           /\ exit_stack = <<>>

\* s is a prefix of t
IsPrefix(s, t) == Len(s) <= Len(t) /\ SubSeq(t, 1, Len(s)) = s

\* C24: the conversation history is append-only: every process_query call,
\* with any backend and whether it succeeds or fails, leaves the entries
\* that were there unchanged and in order, so the earlier history is a
\* prefix of the later one.
C24_HistoryAppendOnly ==
    Processed => IsPrefix(last.history_before, conversation_history)

\* C24 witness: a second query on the Anthropic backend, which slices the
\* system message off, kept the history of the first and added to it.
C24_Witness ==
    /\ Processed
    /\ provider = "anthropic"
    /\ Len(last.history_before) > 1
    /\ last.history_before[1] = SystemMessage
    /\ IsPrefix(last.history_before, conversation_history)
    /\ Len(conversation_history) > Len(last.history_before)

\* process_query returned the error text
ReturnedError ==
    Processed /\ last.returned # <<>> /\ last.returned[1] = Lit("Error processing query: ")

\* C26 as stated: whenever process_query returns the error text, the history
\* has grown by exactly one entry, the user's message.
C26_ErrorGrowsByUserMessage ==
    ReturnedError => AddedMessages = <<UserMessage(last.query)>>

\* C26 amended: whenever process_query returns the error text, the first
\* entry added is the user's message; nothing else is added, except by the
\* OpenAI backend when the follow-up request was sent: then the
\* tool-invocation and the tool-result message were added after it.
C26_ErrorGrowth ==
    ReturnedError =>
        /\ AddedMessages # <<>>
        /\ AddedMessages[1] = UserMessage(last.query)
        /\ IF provider = "openai" /\ Len(last.requests) = 2
           THEN /\ Len(AddedMessages) = 3
                /\ IsToolInvocation(AddedMessages[2])
                /\ IsToolResult(AddedMessages[3])
           ELSE Len(AddedMessages) = 1

\* C26 witness: the follow-up request of the OpenAI backend raised and the
\* history had grown by three entries.
C26_Witness ==
    /\ ReturnedError
    /\ provider = "openai"
    /\ Len(last.replies) = 2
    /\ last.replies[2].raised
    /\ Len(AddedMessages) = 3

\* C27: whenever process_query returns something else than the error text,
\* the last entry of the history is the assistant message with exactly the
\* returned response, and the user's message of the query is before it.
C27_AnswerIsLastEntry ==
    (Processed /\ last.exception = "")
        => /\ conversation_history[Len(conversation_history)] =
                  [role |-> "assistant", content |-> last.returned]
           /\ \E i \in DOMAIN AddedMessages :
                 /\ i < Len(AddedMessages)
                 /\ AddedMessages[i] = UserMessage(last.query)

\* C27 witness: an answer after a tool call was returned and is the last entry.
C27_Witness ==
    /\ Processed
    /\ last.exception = ""
    /\ last.tool_ok
    /\ conversation_history[Len(conversation_history)].content = last.returned
    /\ last.returned = Text("London: 58F and rainy.")

\* what the text of a reply is read from: the message of an OpenAI reply,
\* the first content block of an Anthropic or Bedrock reply
ReplyBlock(reply) ==
    IF "tool_calls" \in DOMAIN reply.value THEN [text |-> reply.value.content]
    ELSE IF reply.value.content = <<>> THEN [type |-> "none"]
    ELSE reply.value.content[1]

\* the invocation names no listed tool, or a listed tool with an unknown city
SoftErrorCall(call) ==
    \/ call.name \notin ListedToolNames
    \/ call.name = "get_current_weather" /\ UnknownCityArgument(call.arguments)

\* the text a tool-result message carries
ToolResultText(m) ==
    IF m.role = "tool" THEN m.content
    ELSE m.content[CHOOSE i \in DOMAIN m.content : m.content[i].type = "tool_result"].content

\* the last message of a backend request
LastMessage(request) == request.messages[Len(request.messages)]

\* C28: when the backend asks for a tool that is not listed, or for a listed
\* tool with an unknown city, and the transport delivers the call, the round
\* trip completes: the provider's soft error text is the tool result of the
\* follow-up request, and no error text is returned because of it.
C28_SoftErrorReachesBackend ==
    (/\ Processed
     /\ ToolSignal(last.replies[1])
     /\ last.calls # <<>>
     /\ last.io = "deliver"
     /\ SoftErrorCall(last.calls[1]))
        => /\ last.tool_ok
           /\ Len(last.requests) = 2
           /\ IsToolResult(LastMessage(last.requests[2]))
           /\ ToolResultText(LastMessage(last.requests[2]))[1] \in
                  {Lit("Error: Unknown tool '"), Lit("Error: Unknown city '")}
           /\ (~last.replies[2].raised /\ "text" \in DOMAIN ReplyBlock(last.replies[2]))
                 => last.exception = ""

\* C28 witness: the backend asked for get_forecast, the error text went into
\* the follow-up request and the follow-up's answer was returned.
C28_Witness ==
    /\ Processed
    /\ last.calls = <<[name |-> "get_forecast", arguments |-> <<>>]>>
    /\ Len(last.requests) = 2
    /\ ToolResultText(LastMessage(last.requests[2]))[1] = Lit("Error: Unknown tool '")
    /\ last.exception = ""
    /\ last.returned = Text("London: 58F and rainy.")

-----------------------------------------------------------------------------
(***************************************************************************)
(* Properties of the provider's state and of the client's connection.      *)
(***************************************************************************)
WeatherFields == {"city", "temperature", "conditions", "humidity", "wind_speed"}

\* C23: after any sequence of facade requests the provider's mapping is the
\* seeded one: the same four keys in the same order, each record with
\* exactly its five fields and their seeded values; no record has a
\* timestamp field.
C23_MappingStaysSeeded ==
    /\ Keys = <<new_york, london, tokyo, paris>>
    /\ \A i \in DOMAIN weather_data :
          /\ DOMAIN weather_data[i].data = WeatherFields
          /\ weather_data[i].data = SeededWeatherData[i].data
    /\ weather_data = SeededWeatherData

\* C23 witness: read_resource answered with a payload that carries a
\* timestamp, and the record it was read from has none.
C23_Witness ==
    /\ Delivered("read_resource")
    /\ last.outcome = "ok"
    /\ last.input.uri = <<WeatherScheme>> \o london
    /\ last.result[1].obj.timestamp \in Timestamps
    /\ "timestamp" \notin DOMAIN Lookup(london)

\* what the provider's handler answers to the request of the last call; the
\* timestamp of a read does not decide whether the handler raises
Handled ==
    CASE last.op = "list_resources" -> handle_list_resources
      [] last.op = "read_resource" ->
            Wrapped(handle_read_resource(last.input.uri, CHOOSE now \in Timestamps : TRUE))
      [] last.op = "list_tools" -> handle_list_tools
      [] last.op = "call_tool" ->
            handle_call_tool(last.input.name, last.input.arguments)
      [] last.op = "list_prompts" -> handle_list_prompts
      [] OTHER -> handle_get_prompt(last.input.name, last.input.arguments)

\* C25: a facade method of a client that holds an open session writes
\* exactly one request per invocation, also when the request fails; when
\* the request raises (the transport fails, or the handler raised), the
\* method raises that same exception: it does not send the request again
\* and does not return a result in its place.
C25_OneRequestNoRetry ==
    (last.op \in FacadeMethods /\ session # None)
        => /\ last.sent <= 1
           /\ SessionOpen(session) => last.sent = 1
           /\ (SessionOpen(session) /\ last.io = "fault")
                 => last.outcome = "raised" /\ last.result = "TransportError"
           /\ (SessionOpen(session) /\ last.io = "deliver" /\ Handled.raised)
                 => last.outcome = "raised" /\ last.result = Handled.value
           /\ ~SessionOpen(session)
                 => last.outcome = "raised" /\ last.result = "ClosedResourceError"

\* C25 witness: call_tool whose request failed on the transport: one request
\* written, the transport's exception raised.
C25_Witness ==
    /\ last.op = "call_tool"
    /\ last.io = "fault"
    /\ last.sent = 1
    /\ last.outcome = "raised"
    /\ last.result = "TransportError"

\* the last call was a read_resource or get_prompt that the provider
\* answered with its hard error
HardError ==
    /\ last.op \in {"read_resource", "get_prompt"}
    /\ last.io = "deliver"
    /\ last.sent = 1
    /\ last.outcome = "raised"
    /\ last.result = "ValueError"

\* C29: after a read_resource for an unknown uri or a get_prompt for an
\* unknown prompt name came back with the provider's error, the client
\* still holds its open session, and the next facade call is sent to the
\* provider and does not fail with the not-connected error.
C29_HardErrorKeepsSession ==
    /\ [](HardError => session # None /\ SessionOpen(session))
    /\ [][(HardError /\ last'.op \in FacadeMethods)
            => /\ last'.sent = 1
               /\ last'.outcome # NotConnected.outcome
               /\ session' = session]_vars

\* C29 witness: get_prompt for an unknown prompt name raised the provider's
\* ValueError, and the session is still there and open.
C29_Witness ==
    /\ HardError
    /\ last.op = "get_prompt"
    /\ last.input.name \notin {"weather_report", "travel_weather_advice"}
    /\ session # None
    /\ SessionOpen(session)

\* C30: after a disconnect() that returned normally the session is cleared,
\* and as long as no connect_to_server has returned normally since, every
\* facade method fails with the not-connected error and writes no request.
C30_DisconnectedUntilConnect ==
    /\ (last.op = "disconnect" /\ last.outcome = "ok") => session = None
    /\ (disconnected /\ last.op \in FacadeMethods)
          => last.outcome = NotConnected.outcome /\ last.sent = 0

====
